---- MODULE Spec2Model ----
(***************************************************************************)
(* A model of sae_lens/training/sparse_autoencoder.py: the sparse          *)
(* autoencoder (SparseAutoencoderBase), its training extension             *)
(* (TrainingSparseAutoencoder), and their persistence.                     *)
(*                                                                         *)
(* Tensors are sequences of integers in fixed point: the integer One       *)
(* stands for 1.0.  A vector is a sequence, a matrix a sequence of rows, a *)
(* batch a sequence of items.  Random draws (kaiming_uniform_, rand,       *)
(* orthogonal_, randn) are choices from small sets of samples whose        *)
(* arithmetic is exact in this fixed point.                                *)
(***************************************************************************)
EXTENDS Integers, Sequences, FiniteSets, TLC

VARIABLES
    sae,    \* the autoencoder instance under study, or NoSae
    fs,     \* the directories on disk: which exist and what files they hold
    out,    \* what the last call did and returned
    prev    \* the call before the last one, when the last one follows up on it

vars == <<sae, fs, out, prev>>

(***************************************************************************)
(* Bounds of the model.                                                    *)
(***************************************************************************)
NumSeeds == 2       \* how many different outcomes each random draw has
MaxBatch == 2       \* largest batch size of an input tensor
MaxOptSteps == 1    \* how many optimizer steps an instance takes

(***************************************************************************)
(* Fixed-point arithmetic.                                                 *)
(***************************************************************************)
One == 100

Abs(a) == IF a < 0 THEN -a ELSE a

\* a / b for b > 0, rounded toward zero
Quot(a, b) == IF a >= 0 THEN a \div b ELSE -((-a) \div b)

FxMul(a, b) == Quot(a * b, One)

FxDiv(a, b) == Quot(a * One, b)

RECURSIVE SumSeq(_)
SumSeq(s) == IF s = <<>> THEN 0 ELSE Head(s) + SumSeq(Tail(s))

RECURSIVE SqrtSearch(_, _, _)
SqrtSearch(n, lo, hi) ==
    IF lo >= hi THEN lo
    ELSE LET mid == (lo + hi + 1) \div 2
         IN  IF mid * mid <= n THEN SqrtSearch(n, mid, hi)
             ELSE SqrtSearch(n, lo, mid - 1)

\* floor of the square root (46340 is the largest root of a 32-bit integer)
ISqrt(n) == SqrtSearch(n, 0, IF n < 46340 THEN n ELSE 46340)

\* a sequence written as a function, as the tuple it equals: the value is
\* computed once, when the tensor is built
Tup(f) == f \o <<>>

Zeros(n) == Tup([i \in 1..n |-> 0])

Ones(n) == Tup([i \in 1..n |-> One])

VecAdd(u, v) == Tup([i \in 1..Len(u) |-> u[i] + v[i]])

VecSub(u, v) == Tup([i \in 1..Len(u) |-> u[i] - v[i]])

\* elementwise product of two vectors
VecMul(u, v) == Tup([i \in 1..Len(u) |-> FxMul(u[i], v[i])])

\* a vector times a scalar
VecScale(u, c) == Tup([i \in 1..Len(u) |-> FxMul(u[i], c)])

\* v @ M for a vector v and a matrix M with Len(v) rows and cols columns
VecMat(v, M, cols) ==
    Tup([j \in 1..cols |-> Quot(SumSeq(Tup([i \in 1..Len(v) |-> v[i] * M[i][j]])), One)])

\* the L2 norm of a vector: torch.norm(v)
Norm(v) == ISqrt(SumSeq(Tup([i \in 1..Len(v) |-> v[i] * v[i]])))

\* the L1 norm of a vector: v.norm(p=1)
Norm1(v) == SumSeq(Tup([i \in 1..Len(v) |-> Abs(v[i])]))

\* mutant: the .T is forgotten
TransposeForgotten(M, rows, cols) == M

Transpose(M, rows, cols) == Tup([j \in 1..cols |-> Tup([i \in 1..rows |-> M[i][j]])])

\* torch.norm(M, dim=1): the L2 norm of every row
RowNorms(M) == Tup([i \in 1..Len(M) |-> Norm(M[i])])

\* the mean of a sequence of scalars
Mean(s) == Quot(SumSeq(s), Len(s))

(***************************************************************************)
(* Samples of the random initialisers.                                     *)
(***************************************************************************)
Seeds == 0..(NumSeeds - 1)

\* the k-th sample direction of length n: a vector of L2 norm One
UnitDir(k, n) ==
    LET p == (k % n) + 1
        q == (p % n) + 1
        t == IF n = 1 THEN (k % 2) * 2 ELSE k % 3
    IN  Tup([j \in 1..n |->
            IF t = 0 THEN (IF j = p THEN One ELSE 0)
            ELSE IF t = 1
                 THEN (IF j = p THEN (3 * One) \div 5
                       ELSE IF j = q THEN (4 * One) \div 5 ELSE 0)
                 ELSE (IF j = p THEN IF n = 1 THEN -One ELSE -((4 * One) \div 5)
                       ELSE IF j = q THEN (3 * One) \div 5 ELSE 0)])

\* torch.nn.init.kaiming_uniform_(torch.empty(rows, cols)): entries uniform
\* in (-bound, bound), bound = sqrt(6 / cols) > 1.25 for cols <= 3
KaimingUniform(rows, cols, seed) ==
    Tup([i \in 1..rows |->
        VecScale(UnitDir(i + seed, cols), <<50, 125, 100, 75>>[((i + 2 * seed) % 4) + 1])])

\* torch.rand(rows, cols): entries uniform in [0, 1)
TorchRand(rows, cols, seed) ==
    Tup([i \in 1..rows |->
        VecScale(UnitDir(3 * (i + seed) + (i % 2), cols),
                 <<50, 75, 25, 90>>[((i + seed) % 4) + 1])])

\* a rows x cols matrix, rows <= cols, whose rows are orthonormal
OrthRows(rows, cols, seed) ==
    LET col(j) == ((j + seed) % cols) + 1
    IN  Tup([i \in 1..rows |-> Tup([j \in 1..cols |->
            IF i < rows \/ rows = cols
            THEN (IF col(j) = i THEN One ELSE 0)
            ELSE IF col(j) = rows THEN (3 * One) \div 5
                 ELSE IF col(j) = rows + 1 THEN (4 * One) \div 5
                 ELSE 0])])

\* nn.init.orthogonal_ on a rows x cols tensor: orthonormal rows when
\* rows < cols, orthonormal columns otherwise
Orthogonal(rows, cols, seed) ==
    IF rows <= cols THEN OrthRows(rows, cols, seed)
    ELSE Transpose(OrthRows(cols, rows, seed), cols, rows)

(***************************************************************************)
(* The instance.  An instance is a record of its attributes; params is the *)
(* map of its registered parameters (what state_dict() returns).           *)
(***************************************************************************)
\* torch.float32 / torch.float16, the dtype objects
Float32 == [torch_dtype |-> "float32"]

Float16 == [torch_dtype |-> "float16"]

NoSae == [kind |-> "none"]

HookNames == <<"hook_sae_in", "hook_hidden_pre", "hook_hidden_post", "hook_sae_out">>

\* new overrides old on the names both define
Merge(new, old) ==
    [k \in (DOMAIN new) \cup (DOMAIN old) |-> IF k \in DOMAIN new THEN new[k] ELSE old[k]]

initialize_weights_basic(s, seed) ==
    LET basic == [b_enc |-> Zeros(s.d_sae),
                  W_dec |-> KaimingUniform(s.d_sae, s.d_in, seed),
                  W_enc |-> KaimingUniform(s.d_in, s.d_sae, seed + 1),
                  b_dec |-> Zeros(s.d_in)]
        scaling == [scaling_factor |-> Ones(s.d_sae)]
    IN  [s EXCEPT !.params =
            IF s.uses_scaling_factor
            THEN Merge(scaling, Merge(basic, @))
            ELSE Merge(basic, @)]

\* SparseAutoencoderBase.__init__; a holds the keyword arguments
SparseAutoencoderBase(a, seed) ==
    LET s0 == [kind |-> "base",
               d_in |-> a.d_in,
               d_sae |-> a.d_sae,
               activation_fn_str |-> a.activation_fn,
               apply_b_dec_to_input |-> a.apply_b_dec_to_input,
               uses_scaling_factor |-> a.uses_scaling_factor,
               model_name |-> a.model_name,
               hook_point |-> a.hook_point,
               hook_point_layer |-> a.hook_point_layer,
               hook_point_head_index |-> a.hook_point_head_index,
               dataset_name |-> a.dataset_path,
               prepend_bos |-> a.prepend_bos,
               context_size |-> a.context_size,
               dtype |-> a.dtype,
               device |-> a.device,
               sae_lens_training_version |-> a.sae_lens_training_version,
               params |-> <<>>,
               \* a plain (non-parameter) attribute named scaling_factor, if
               \* one was assigned: <<>> when there is none, <<v>> otherwise
               scaling_attr |-> <<>>,
               \* nn.Module.training
               training |-> TRUE,
               \* bookkeeping: optimizer steps applied so far
               opt_steps |-> 0]
        s1 == initialize_weights_basic(s0, seed)
    IN  [k \in (DOMAIN s1) \cup {"apply_scaling_factor", "hooks"} |->
            IF k = "apply_scaling_factor"
            THEN (IF s1.uses_scaling_factor THEN "mul" ELSE "id")
            ELSE IF k = "hooks"
            THEN [h \in {HookNames[i] : i \in 1..4} |-> "none"]
            ELSE s1[k]]

\* the keyword arguments __init__ leaves to their defaults
BaseDefaults ==
    [hook_point_head_index |-> "None",
     activation_fn |-> "relu",
     apply_b_dec_to_input |-> TRUE,
     uses_scaling_factor |-> FALSE,
     sae_lens_training_version |-> "None",
     prepend_bos |-> TRUE,
     dataset_path |-> "unknown",
     context_size |-> 256]

(***************************************************************************)
(* Training utilities on the decoder.                                      *)
(***************************************************************************)
\* W /= torch.norm(W, dim=1, keepdim=True)
DivideRowsByNorm(W) ==
    Tup([i \in 1..Len(W) |-> Tup([j \in 1..Len(W[i]) |-> FxDiv(W[i][j], Norm(W[i]))])])

\* mutant: the norm is taken over dim=0 (the columns) instead of the rows
set_decoder_norm_to_unit_norm_dim0(s) ==
    [s EXCEPT !.params.W_dec =
        LET cols == Transpose(@, Len(@), Len(@[1]))
        IN  Tup([i \in 1..Len(@) |-> Tup([j \in 1..Len(@[i]) |-> FxDiv(@[i][j], Norm(cols[j]))])])]

set_decoder_norm_to_unit_norm(s) ==
    [s EXCEPT !.params.W_dec = DivideRowsByNorm(@)]

HeuristicNorm == 10

\* mutant: the rows are scaled by norm without being normalised first
initialize_decoder_norm_constant_norm_unnormalised(s, norm) ==
    [s EXCEPT !.params.W_dec = Tup([i \in 1..Len(@) |-> VecScale(@[i], norm)])]

initialize_decoder_norm_constant_norm(s, norm) ==
    [s EXCEPT !.params.W_dec =
        LET unit == DivideRowsByNorm(@)
        IN  Tup([i \in 1..Len(unit) |-> VecScale(unit[i], norm)])]

\* mutant: the encoder is copied from the decoder before the decoder
\* strategy runs
initialize_weights_complex_encoder_first(s, seed) ==
    LET W0 == s.params.W_dec
        s0 == IF s.init_encoder_as_decoder_transpose
              THEN [s EXCEPT !.params.W_enc = Transpose(W0, Len(W0), Len(W0[1]))]
              ELSE [s EXCEPT !.params.W_enc = KaimingUniform(s.d_in, s.d_sae, seed + 4)]
        s1 == IF s.decoder_orthogonal_init
              THEN [s0 EXCEPT !.params.W_dec =
                       Transpose(Orthogonal(Len(W0[1]), Len(W0), seed + 2),
                                 Len(W0[1]), Len(W0))]
              ELSE IF s.decoder_heuristic_init
              THEN initialize_decoder_norm_constant_norm(
                       [s0 EXCEPT !.params.W_dec = TorchRand(s.d_sae, s.d_in, seed + 3)],
                       HeuristicNorm)
              ELSE IF s.normalize_sae_decoder
              THEN set_decoder_norm_to_unit_norm(s0)
              ELSE s0
    IN  IF s.normalize_sae_decoder THEN set_decoder_norm_to_unit_norm(s1) ELSE s1

\* mutant: the three decoder branches are independent conditionals, not an
\* if / elif chain
initialize_weights_complex_independent(s, seed) ==
    LET W0 == s.params.W_dec
        a == IF s.decoder_orthogonal_init
             THEN [s EXCEPT !.params.W_dec =
                      Transpose(Orthogonal(Len(W0[1]), Len(W0), seed + 2),
                                Len(W0[1]), Len(W0))]
             ELSE s
        b == IF s.decoder_heuristic_init
             THEN initialize_decoder_norm_constant_norm(
                      [a EXCEPT !.params.W_dec = TorchRand(s.d_sae, s.d_in, seed + 3)],
                      HeuristicNorm)
             ELSE a
        s1 == IF s.normalize_sae_decoder THEN set_decoder_norm_to_unit_norm(b) ELSE b
        W1 == s1.params.W_dec
        s2 == IF s.init_encoder_as_decoder_transpose
              THEN [s1 EXCEPT !.params.W_enc = Transpose(W1, Len(W1), Len(W1[1]))]
              ELSE [s1 EXCEPT !.params.W_enc = KaimingUniform(s.d_in, s.d_sae, seed + 4)]
    IN  IF s.normalize_sae_decoder THEN set_decoder_norm_to_unit_norm(s2) ELSE s2

initialize_weights_complex(s, seed) ==
    LET W0 == s.params.W_dec
        s1 == IF s.decoder_orthogonal_init
              THEN \* the decoder's transposed view is filled in place
                   [s EXCEPT !.params.W_dec =
                       Transpose(Orthogonal(Len(W0[1]), Len(W0), seed + 2),
                                 Len(W0[1]), Len(W0))]
              ELSE IF s.decoder_heuristic_init
              THEN initialize_decoder_norm_constant_norm(
                       [s EXCEPT !.params.W_dec = TorchRand(s.d_sae, s.d_in, seed + 3)],
                       HeuristicNorm)
              ELSE IF s.normalize_sae_decoder
              THEN set_decoder_norm_to_unit_norm(s)
              ELSE s
        W1 == s1.params.W_dec
        s2 == IF s.init_encoder_as_decoder_transpose
              THEN [s1 EXCEPT !.params.W_enc = Transpose(W1, Len(W1), Len(W1[1]))]
              ELSE [s1 EXCEPT !.params.W_enc = KaimingUniform(s.d_in, s.d_sae, seed + 4)]
    IN  IF s.normalize_sae_decoder THEN set_decoder_norm_to_unit_norm(s2) ELSE s2

\* TrainingSparseAutoencoder.__init__
TrainingSparseAutoencoder(cfg, seed) ==
    LET b == SparseAutoencoderBase(
                 [d_in |-> cfg.d_in,
                  d_sae |-> cfg.d_sae,
                  dtype |-> cfg.dtype,
                  device |-> cfg.device,
                  model_name |-> cfg.model_name,
                  hook_point |-> cfg.hook_point,
                  hook_point_layer |-> cfg.hook_point_layer,
                  hook_point_head_index |-> cfg.hook_point_head_index,
                  activation_fn |-> cfg.activation_fn,
                  apply_b_dec_to_input |-> cfg.apply_b_dec_to_input,
                  uses_scaling_factor |-> (cfg.finetuning_method # "None"),
                  sae_lens_training_version |-> cfg.sae_lens_training_version,
                  prepend_bos |-> BaseDefaults.prepend_bos,
                  dataset_path |-> BaseDefaults.dataset_path,
                  context_size |-> BaseDefaults.context_size],
                 seed)
        t == [mse_loss_normalization |-> cfg.mse_loss_normalization,
              l1_coefficient |-> cfg.l1_coefficient,
              lp_norm |-> cfg.lp_norm,
              scale_sparsity_penalty_by_decoder_norm |->
                  cfg.scale_sparsity_penalty_by_decoder_norm,
              use_ghost_grads |-> cfg.use_ghost_grads,
              noise_scale |-> cfg.noise_scale,
              normalize_sae_decoder |-> cfg.normalize_sae_decoder,
              decoder_orthogonal_init |-> cfg.decoder_orthogonal_init,
              decoder_heuristic_init |-> cfg.decoder_heuristic_init,
              init_encoder_as_decoder_transpose |-> cfg.init_encoder_as_decoder_transpose,
              kind |-> "training"]
        s == initialize_weights_complex(Merge(t, b), seed)
    IN  Merge([get_sparsity_loss_term |->
                  IF s.scale_sparsity_penalty_by_decoder_norm
                  THEN "decoder_norm" ELSE "standard"], s)

(***************************************************************************)
(* The forward pass.  A tensor x is a batch: a sequence of items.          *)
(***************************************************************************)
\* get_activation_fn("relu") applied to one item
Relu(v) == Tup([j \in 1..Len(v) |-> IF v[j] > 0 THEN v[j] ELSE 0])

\* HookPoint.__call__: the argument passes through unchanged unless an
\* external hook is attached that returns a replacement (here: zero ablation)
Tap(s, name, v) ==
    [name |-> name,
     arg |-> v,
     ret |-> IF s.hooks[name] = "zero"
             THEN Tup([n \in 1..Len(v) |-> Zeros(Len(v[n]))])
             ELSE v]

\* x - (self.b_dec * self.apply_b_dec_to_input)
CenterInput(s, x) ==
    Tup([n \in 1..Len(x) |->
        VecSub(x[n], IF s.apply_b_dec_to_input THEN s.params.b_dec
                     ELSE Zeros(Len(s.params.b_dec)))])

\* sae_in @ self.W_enc + self.b_enc
PreActivation(s, sae_in) ==
    Tup([n \in 1..Len(sae_in) |->
        VecAdd(VecMat(sae_in[n], s.params.W_enc, Len(s.params.W_enc[1])),
               s.params.b_enc)])

\* SparseAutoencoderBase.encode
encode(s, x) ==
    LET t1 == Tap(s, "hook_sae_in", CenterInput(s, x))
        t2 == Tap(s, "hook_hidden_pre", PreActivation(s, t1.ret))
        t3 == Tap(s, "hook_hidden_post", Tup([n \in 1..Len(x) |-> Relu(t2.ret[n])]))
    IN  [feature_acts |-> t3.ret, taps |-> <<t1, t2, t3>>]

\* mutant: the noise is not gated on self.training
NoiseTermUngated(s, randn) ==
    Tup([n \in 1..Len(randn) |-> VecScale(randn[n], s.noise_scale)])

\* torch.randn_like(hidden_pre) * self.noise_scale * self.training
NoiseTerm(s, randn) ==
    Tup([n \in 1..Len(randn) |->
        Tup([j \in 1..Len(randn[n]) |->
            FxMul(randn[n][j], s.noise_scale) * (IF s.training THEN 1 ELSE 0)])])

\* mutant: the activation is computed from the tensor handed to
\* hook_hidden_pre, not from what the hook returned
encode_with_hidden_pre_unhooked(s, x, randn) ==
    LET t1 == Tap(s, "hook_sae_in", CenterInput(s, x))
        t2 == Tap(s, "hook_hidden_pre", PreActivation(s, t1.ret))
        noise == NoiseTerm(s, randn)
        noisy == Tup([n \in 1..Len(x) |-> VecAdd(t2.arg[n], noise[n])])
        t3 == Tap(s, "hook_hidden_post", Tup([n \in 1..Len(x) |-> Relu(noisy[n])]))
    IN  [feature_acts |-> t3.ret, hidden_pre |-> t2.ret, taps |-> <<t1, t2, t3>>]

\* TrainingSparseAutoencoder._encode_with_hidden_pre; randn is the outcome
\* of torch.randn_like(hidden_pre)
encode_with_hidden_pre(s, x, randn) ==
    LET t1 == Tap(s, "hook_sae_in", CenterInput(s, x))
        t2 == Tap(s, "hook_hidden_pre", PreActivation(s, t1.ret))
        noise == NoiseTerm(s, randn)
        noisy == Tup([n \in 1..Len(x) |-> VecAdd(t2.ret[n], noise[n])])
        t3 == Tap(s, "hook_hidden_post", Tup([n \in 1..Len(x) |-> Relu(noisy[n])]))
    IN  [feature_acts |-> t3.ret, hidden_pre |-> t2.ret, taps |-> <<t1, t2, t3>>]

\* self.scaling_factor as Python resolves it: the registered parameter, else
\* a plain attribute of that name
ScalingFactorAttr(s) ==
    IF "scaling_factor" \in DOMAIN s.params THEN s.params.scaling_factor
    ELSE s.scaling_attr[1]

\* mutant: the features are multiplied by a scaling_factor whenever the
\* instance has an attribute of that name
apply_scaling_factor_if_present(s, f) ==
    IF "scaling_factor" \in DOMAIN s.params \/ s.scaling_attr # <<>>
    THEN Tup([n \in 1..Len(f) |-> VecMul(f[n], ScalingFactorAttr(s))])
    ELSE f

\* self.apply_scaling_factor, the closure chosen in __init__
apply_scaling_factor(s, f) ==
    IF s.apply_scaling_factor = "mul"
    THEN Tup([n \in 1..Len(f) |-> VecMul(f[n], ScalingFactorAttr(s))])
    ELSE f

\* f @ W_dec + b_dec for every item of a batch
Affine(f, W, b) ==
    Tup([n \in 1..Len(f) |-> VecAdd(VecMat(f[n], W, Len(W[1])), b)])

\* SparseAutoencoderBase.decode
decode(s, feature_acts) ==
    LET t4 == Tap(s, "hook_sae_out",
                  Affine(apply_scaling_factor(s, feature_acts),
                         s.params.W_dec, s.params.b_dec))
    IN  [sae_out |-> t4.ret, taps |-> <<t4>>]

\* SparseAutoencoderBase.forward
forward(s, x) ==
    LET enc == encode(s, x)
        dec == decode(s, enc.feature_acts)
    IN  [sae_out |-> dec.sae_out, taps |-> enc.taps \o dec.taps]

\* Tensor.mean(dim=0): the mean item of a batch
BatchMean(batch) ==
    Tup([j \in 1..Len(batch[1]) |-> Mean(Tup([n \in 1..Len(batch) |-> batch[n][j]]))])

(***************************************************************************)
(* The training loss.                                                      *)
(***************************************************************************)
\* the additive 1e-6 of the loss code: the smallest positive fixed-point value
Eps == 1

\* torch.nn.functional.mse_loss(preds, target, reduction="none")
SquaredError(preds, target) ==
    Tup([n \in 1..Len(preds) |->
        Tup([j \in 1..Len(preds[n]) |->
            FxMul(preds[n][j] - target[n][j], preds[n][j] - target[n][j])])])

per_item_mse_loss_with_target_norm(preds, target, mse_loss_normalization) ==
    IF mse_loss_normalization = "dense_batch"
    THEN LET mean == BatchMean(target)
             normalization == Tup([n \in 1..Len(target) |-> Norm(VecSub(target[n], mean))])
             se == SquaredError(preds, target)
         IN  Tup([n \in 1..Len(se) |->
                 Tup([j \in 1..Len(se[n]) |-> FxDiv(se[n][j], normalization[n] + Eps)])])
    ELSE SquaredError(preds, target)

\* Tensor.norm(p=lp_norm, dim=-1) of one item
LpNorm(v, p) == IF p = 1 THEN Norm1(v) ELSE Norm(v)

get_sparsity_loss_term_standard(s, feature_acts) ==
    Tup([n \in 1..Len(feature_acts) |-> LpNorm(feature_acts[n], s.lp_norm)])

get_sparsity_loss_term_decoder_norm(s, feature_acts) ==
    Tup([n \in 1..Len(feature_acts) |->
        LpNorm(VecMul(feature_acts[n], RowNorms(s.params.W_dec)), s.lp_norm)])

\* mutant: the flag is read again at every call
get_sparsity_loss_term_rereading_flag(s, feature_acts) ==
    IF s.scale_sparsity_penalty_by_decoder_norm
    THEN get_sparsity_loss_term_decoder_norm(s, feature_acts)
    ELSE get_sparsity_loss_term_standard(s, feature_acts)

\* self.get_sparsity_loss_term, the method bound in __init__
get_sparsity_loss_term(s, feature_acts) ==
    IF s.get_sparsity_loss_term = "decoder_norm"
    THEN get_sparsity_loss_term_decoder_norm(s, feature_acts)
    ELSE get_sparsity_loss_term_standard(s, feature_acts)

\* torch.exp in fixed point: a positive, increasing second-order approximation
ExpFx(v) ==
    IF v >= 0 THEN One + v + FxMul(v, v) \div 2
    ELSE FxDiv(One, One - v + FxMul(v, v) \div 2)

\* the mean over all elements of a batch
MeanAll(t) ==
    Quot(SumSeq(Tup([n \in 1..Len(t) |-> SumSeq(t[n])])), Len(t) * Len(t[1]))

calculate_ghost_grad_loss(s, x, sae_out, per_item_mse_loss, hidden_pre, dead_neuron_mask) ==
    LET W == s.params.W_dec
        residual == Tup([n \in 1..Len(x) |-> VecSub(x[n], sae_out[n])])
        l2_norm_residual == Tup([n \in 1..Len(x) |-> Norm(residual[n])])
        \* (torch.exp(hidden_pre[:, mask]) @ W_dec[mask, :])[n]
        ghost0 == Tup([n \in 1..Len(x) |->
                      Tup([c \in 1..Len(W[1]) |->
                          Quot(SumSeq(Tup([j \in 1..Len(W) |->
                                          IF dead_neuron_mask[j]
                                          THEN ExpFx(hidden_pre[n][j]) * W[j][c]
                                          ELSE 0])),
                               One)])])
        l2_norm_ghost_out == Tup([n \in 1..Len(x) |-> Norm(ghost0[n])])
        norm_scaling_factor ==
            Tup([n \in 1..Len(x) |->
                FxDiv(l2_norm_residual[n], Eps + l2_norm_ghost_out[n] * 2)])
        ghost_out == Tup([n \in 1..Len(x) |-> VecScale(ghost0[n], norm_scaling_factor[n])])
        ghost_resid == per_item_mse_loss_with_target_norm(
                           ghost_out, residual, s.mse_loss_normalization)
        rescaled ==
            Tup([n \in 1..Len(x) |->
                Tup([c \in 1..Len(ghost_resid[n]) |->
                    FxMul(FxDiv(per_item_mse_loss[n][c], ghost_resid[n][c] + Eps),
                          ghost_resid[n][c])])])
    IN  MeanAll(rescaled)

\* the number of dead neurons a mask marks: dead_neuron_mask.sum()
MaskSum(mask) == SumSeq(Tup([j \in 1..Len(mask) |-> IF mask[j] THEN 1 ELSE 0]))

\* mutant: the gate does not look at self.training
GhostGradsActiveIgnoringMode(s, dead_neuron_mask) ==
    /\ s.use_ghost_grads
    /\ dead_neuron_mask # <<>>
    /\ MaskSum(dead_neuron_mask[1]) > 0

\* the gate of the ghost-gradient term; dead_neuron_mask is <<>> for None
\* and <<mask>> for a mask
GhostGradsActive(s, dead_neuron_mask) ==
    /\ s.use_ghost_grads
    /\ s.training
    /\ dead_neuron_mask # <<>>
    /\ MaskSum(dead_neuron_mask[1]) > 0

\* TrainingSparseAutoencoder.forward
forward_training(s, x, dead_neuron_mask, randn) ==
    LET enc == encode_with_hidden_pre(s, x, randn)
        dec == decode(s, enc.feature_acts)
        per_item_mse_loss == per_item_mse_loss_with_target_norm(
                                 dec.sae_out, x, s.mse_loss_normalization)
        active == GhostGradsActive(s, dead_neuron_mask)
        ghost_grad_loss ==
            IF active
            THEN calculate_ghost_grad_loss(s, x, dec.sae_out, per_item_mse_loss,
                                           enc.hidden_pre, dead_neuron_mask[1])
            ELSE 0
        mse_loss == Mean(Tup([n \in 1..Len(x) |-> SumSeq(per_item_mse_loss[n])]))
        sparsity == get_sparsity_loss_term(s, enc.feature_acts)
        l1_loss == Mean(Tup([n \in 1..Len(x) |-> FxMul(s.l1_coefficient, sparsity[n])]))
    IN  [sae_out |-> dec.sae_out,
         feature_acts |-> enc.feature_acts,
         loss |-> mse_loss + l1_loss + ghost_grad_loss,
         mse_loss |-> mse_loss,
         l1_loss |-> l1_loss,
         ghost_grad_loss |-> ghost_grad_loss,
         \* bookkeeping: the taps fired and whether calculate_ghost_grad_loss ran
         taps |-> enc.taps \o dec.taps,
         hidden_pre |-> enc.hidden_pre,
         ghost_calls |-> IF active THEN 1 ELSE 0]

(***************************************************************************)
(* Decoder-bias recalibration.                                             *)
(***************************************************************************)
initialize_b_dec_with_precalculated(s, origin) ==
    [s EXCEPT !.params.b_dec = origin]

initialize_b_dec_with_mean(s, all_activations) ==
    [s EXCEPT !.params.b_dec = BatchMean(all_activations)]

(***************************************************************************)
(* Inputs.                                                                 *)
(***************************************************************************)
\* the n-th sample item of width d
Item(n, d) == Tup([j \in 1..d |-> <<One, -50, 200, 30>>[((n + j) % 4) + 1]])

\* the input tensors: batches of 1..MaxBatch items of width d
Batches(d) == {Tup([n \in 1..b |-> Item(n, d)]) : b \in 1..MaxBatch}

\* a training configuration (LanguageModelSAERunnerConfig); normalize_sae_decoder
\* is on unless a configuration turns it off
DefaultCfg ==
    [d_in |-> 2,
     d_sae |-> 3,
     dtype |-> Float32,
     device |-> "cpu",
     model_name |-> "gpt2",
     hook_point |-> "blocks.0.hook_resid_pre",
     hook_point_layer |-> 0,
     hook_point_head_index |-> "None",
     activation_fn |-> "relu",
     apply_b_dec_to_input |-> TRUE,
     finetuning_method |-> "None",
     sae_lens_training_version |-> "None",
     mse_loss_normalization |-> "None",
     l1_coefficient |-> One \div 2,
     lp_norm |-> 1,
     scale_sparsity_penalty_by_decoder_norm |-> FALSE,
     use_ghost_grads |-> FALSE,
     noise_scale |-> 0,
     normalize_sae_decoder |-> TRUE,
     decoder_orthogonal_init |-> FALSE,
     decoder_heuristic_init |-> FALSE,
     init_encoder_as_decoder_transpose |-> FALSE,
     prepend_bos |-> FALSE,
     dataset_path |-> "openwebtext",
     context_size |-> 128]

\* every combination of the four initialisation flags
InitCfgs ==
    {[DefaultCfg EXCEPT !.decoder_orthogonal_init = o,
                        !.decoder_heuristic_init = h,
                        !.normalize_sae_decoder = n,
                        !.init_encoder_as_decoder_transpose = t] :
        o \in BOOLEAN, h \in BOOLEAN, n \in BOOLEAN, t \in BOOLEAN}

NoCall == [op |-> "none"]

Done(name) == [op |-> name, status |-> "ok"]

(***************************************************************************)
(* Construction and the initialisation utilities as steps.                 *)
(***************************************************************************)
ConstructTraining(cfgs, seeds) ==
    /\ sae = NoSae
    /\ \E cfg \in cfgs, seed \in seeds :
          /\ sae' = TrainingSparseAutoencoder(cfg, seed)
          /\ out' = [op |-> "construct", status |-> "ok", cfg |-> cfg]
    /\ prev' = NoCall
    /\ UNCHANGED fs

SetDecoderNormToUnitNorm ==
    /\ sae.kind = "training"
    /\ sae' = set_decoder_norm_to_unit_norm(sae)
    /\ out' = Done("set_decoder_norm_to_unit_norm")
    /\ prev' = NoCall
    /\ UNCHANGED fs

InitializeDecoderNormConstantNorm ==
    /\ sae.kind = "training"
    /\ sae' = initialize_decoder_norm_constant_norm(sae, HeuristicNorm)
    /\ out' = Done("initialize_decoder_norm_constant_norm")
    /\ prev' = NoCall
    /\ UNCHANGED fs

InitializeBDecWithPrecalculated ==
    /\ sae.kind = "training"
    /\ \E origin \in {Item(n, sae.d_in) : n \in 1..2} :
          sae' = initialize_b_dec_with_precalculated(sae, origin)
    /\ out' = Done("initialize_b_dec_with_precalculated")
    /\ prev' = NoCall
    /\ UNCHANGED fs

InitializeBDecWithMean ==
    /\ sae.kind = "training"
    /\ \E acts \in Batches(sae.d_in) :
          sae' = initialize_b_dec_with_mean(sae, acts)
    /\ out' = Done("initialize_b_dec_with_mean")
    /\ prev' = NoCall
    /\ UNCHANGED fs

(***************************************************************************)
(* Forward calls and what happens to an instance between them.             *)
(***************************************************************************)
\* keyword arguments for SparseAutoencoderBase.__init__
BaseArgs ==
    {Merge([d_in |-> 2, d_sae |-> 3, dtype |-> Float32, device |-> "cpu",
            model_name |-> "gpt2", hook_point |-> "blocks.0.hook_resid_pre",
            hook_point_layer |-> 0,
            apply_b_dec_to_input |-> a, uses_scaling_factor |-> u],
           BaseDefaults) : a \in BOOLEAN, u \in BOOLEAN}

\* training configurations that differ in what the forward pass reads
FwdCfgs ==
    {[DefaultCfg EXCEPT !.use_ghost_grads = g,
                        !.noise_scale = IF z THEN One \div 2 ELSE 0] :
        g \in BOOLEAN, z \in BOOLEAN}
    \cup
    {[DefaultCfg EXCEPT !.scale_sparsity_penalty_by_decoder_norm = d,
                        !.mse_loss_normalization = IF m THEN "dense_batch" ELSE "None",
                        !.apply_b_dec_to_input = ~d,
                        !.normalize_sae_decoder = FALSE,
                        !.decoder_heuristic_init = d,
                        !.finetuning_method = IF m THEN "decoder" ELSE "None"] :
        d \in BOOLEAN, m \in BOOLEAN}

\* training configurations that differ in what _encode_with_hidden_pre reads
EncodeCfgs ==
    {[DefaultCfg EXCEPT !.noise_scale = IF z THEN One \div 2 ELSE 0,
                        !.apply_b_dec_to_input = a] :
        z \in BOOLEAN, a \in BOOLEAN}

\* outcomes of torch.randn_like for a batch of b items of width d
Randn(b, d, seed) ==
    Tup([n \in 1..b |-> Tup([j \in 1..d |-> <<One, -One, 50, -150>>[((n + j + seed) % 4) + 1]])])

\* the dead_neuron_mask arguments: None (<<>>) or a mask over the features
Masks(d) ==
    {<<>>} \cup {<<Tup([j \in 1..d |-> FALSE])>>, <<Tup([j \in 1..d |-> j = 1])>>,
                 <<Tup([j \in 1..d |-> TRUE])>>}

\* feature tensors handed to decode
FeatureBatches(d) == {<<Zeros(d)>>} \cup Batches(d)

ConstructBase(args, seeds) ==
    /\ sae = NoSae
    /\ \E a \in args, seed \in seeds :
          /\ sae' = SparseAutoencoderBase(a, seed)
          /\ out' = [op |-> "construct", status |-> "ok", cfg |-> a]
    /\ prev' = NoCall
    /\ UNCHANGED fs

\* nn.Module.train(mode) / eval()
SetMode ==
    /\ sae.kind # "none"
    /\ sae' = [sae EXCEPT !.training = ~@]
    /\ out' = Done(IF sae.training THEN "eval" ELSE "train")
    /\ prev' = NoCall
    /\ UNCHANGED fs

\* external tooling attaches a hook that overrides a tap's value
AddHook ==
    /\ sae.kind # "none"
    /\ \A h \in DOMAIN sae.hooks : sae.hooks[h] = "none"
    /\ \E h \in DOMAIN sae.hooks : sae' = [sae EXCEPT !.hooks[h] = "zero"]
    /\ out' = Done("add_hook")
    /\ prev' = NoCall
    /\ UNCHANGED fs

\* HookedRootModule.reset_hooks
ResetHooks ==
    /\ sae.kind # "none"
    /\ \E h \in DOMAIN sae.hooks : sae.hooks[h] # "none"
    /\ sae' = [sae EXCEPT !.hooks = [h \in DOMAIN @ |-> "none"]]
    /\ out' = Done("reset_hooks")
    /\ prev' = NoCall
    /\ UNCHANGED fs

\* sae.scaling_factor = v, v a tensor or an nn.Parameter (nn.Module.__setattr__)
AssignScalingFactor ==
    /\ sae.kind # "none"
    /\ \E as_parameter \in BOOLEAN :
          LET v == Tup([j \in 1..sae.d_sae |-> (j + 1) * One])
              registered == "scaling_factor" \in DOMAIN sae.params
          IN  IF as_parameter
              THEN /\ sae' = [sae EXCEPT !.params = Merge([scaling_factor |-> v], @),
                                         !.scaling_attr = <<>>]
                   /\ out' = Done("assign_scaling_factor")
              ELSE IF registered
              THEN \* a tensor cannot replace a registered parameter
                   /\ sae' = sae
                   /\ out' = [op |-> "assign_scaling_factor", status |-> "raised",
                              error |-> "TypeError"]
              ELSE /\ sae' = [sae EXCEPT !.scaling_attr = <<v>>]
                   /\ out' = Done("assign_scaling_factor")
    /\ prev' = NoCall
    /\ UNCHANGED fs

\* one in-place update of every parameter by an external optimizer
OptimizerStep ==
    /\ sae.kind # "none"
    /\ sae.opt_steps < MaxOptSteps
    /\ LET k == sae.opt_steps
           d(i, j) == <<10, -20, 30>>[((i + j + k) % 3) + 1]
           upd(name) ==
               IF name \in {"W_enc", "W_dec"}
               THEN Tup([i \in 1..Len(sae.params[name]) |->
                        Tup([j \in 1..Len(sae.params[name][i]) |->
                            sae.params[name][i][j] - d(i, j)])])
               ELSE Tup([j \in 1..Len(sae.params[name]) |-> sae.params[name][j] - d(0, j)])
       IN  sae' = [sae EXCEPT !.params = [name \in DOMAIN @ |-> upd(name)],
                              !.opt_steps = @ + 1]
    /\ out' = Done("optimizer_step")
    /\ prev' = NoCall
    /\ UNCHANGED fs

ForwardBase ==
    /\ sae.kind = "base"
    /\ \E x \in Batches(sae.d_in) :
          out' = Merge([op |-> "forward", status |-> "ok", x |-> x], forward(sae, x))
    /\ prev' = NoCall
    /\ UNCHANGED <<sae, fs>>

ForwardTraining(seeds) ==
    /\ sae.kind = "training"
    /\ \E x \in Batches(sae.d_in), mask \in Masks(sae.d_sae), seed \in seeds :
          LET randn == Randn(Len(x), sae.d_sae, seed)
          IN  out' = Merge([op |-> "forward", status |-> "ok", x |-> x,
                            dead_neuron_mask |-> mask, randn |-> randn],
                           forward_training(sae, x, mask, randn))
    /\ prev' = NoCall
    /\ UNCHANGED <<sae, fs>>

EncodeWithHiddenPre ==
    /\ sae.kind = "training"
    /\ \E x \in Batches(sae.d_in), seed \in Seeds :
          LET randn == Randn(Len(x), sae.d_sae, seed)
          IN  /\ out' = Merge([op |-> "encode_with_hidden_pre", status |-> "ok",
                               x |-> x, randn |-> randn],
                              encode_with_hidden_pre(sae, x, randn))
          /\ prev' = IF out.op = "encode_with_hidden_pre" /\ out.x = x
                     THEN out ELSE NoCall
    /\ UNCHANGED <<sae, fs>>

Decode ==
    /\ sae.kind # "none"
    /\ \E f \in FeatureBatches(sae.d_sae) :
          out' = Merge([op |-> "decode", status |-> "ok", feature_acts |-> f],
                       decode(sae, f))
    /\ prev' = NoCall
    /\ UNCHANGED <<sae, fs>>

NextFwd ==
    \/ ConstructBase(BaseArgs, {0})
    \/ ConstructTraining(FwdCfgs, {0})
    \/ SetMode
    \/ AddHook
    \/ ResetHooks
    \/ OptimizerStep
    \/ ForwardBase
    \/ ForwardTraining({0})

NextEncode ==
    \/ ConstructTraining(EncodeCfgs, {0})
    \/ SetMode
    \/ AddHook
    \/ ResetHooks
    \/ OptimizerStep
    \/ EncodeWithHiddenPre

\* training configurations with and without a fine-tuning method
DecodeCfgs ==
    {[DefaultCfg EXCEPT !.finetuning_method = f] : f \in {"None", "decoder"}}

NextDecode ==
    \/ ConstructBase(BaseArgs, Seeds)
    \/ ConstructTraining(DecodeCfgs, Seeds)
    \/ AssignScalingFactor
    \/ OptimizerStep
    \/ AddHook
    \/ ResetHooks
    \/ Decode

(***************************************************************************)
(* Persistence: save_model, load_from_pretrained, from_pretrained.         *)
(***************************************************************************)
SPARSITY_PATH == "sparsity.safetensors"

SAE_WEIGHTS_PATH == "sae_weights.safetensors"

SAE_CFG_PATH == "cfg.json"

\* str(torch.dtype)
DtypeStr(d) == IF d = Float32 THEN "torch.float32" ELSE "torch.float16"

\* nn.Module.state_dict(): every registered parameter under its name
state_dict(s) == s.params

\* the mapping get_config_dict builds once every attribute it reads exists
ConfigDictOf(s, act_store_device) ==
    [d_in |-> s.d_in,
     d_sae |-> s.d_sae,
     dtype |-> DtypeStr(s.dtype),
     device |-> s.device,
     model_name |-> s.model_name,
     hook_point |-> s.hook_point,
     hook_point_layer |-> s.hook_point_layer,
     hook_point_head_index |-> s.hook_point_head_index,
     activation_fn |-> s.activation_fn_str,
     act_store_device |-> act_store_device,
     apply_b_dec_to_input |-> s.apply_b_dec_to_input,
     uses_scaling_factor |-> s.uses_scaling_factor,
     sae_lens_training_version |-> s.sae_lens_training_version,
     prepend_bos |-> s.prepend_bos,
     dataset_name |-> s.dataset_name]

\* get_config_dict reads self.cfg.act_store_device; nn.Module.__getattr__
\* raises AttributeError for an attribute the instance does not have
get_config_dict(s) ==
    IF "cfg" \notin DOMAIN s
    THEN [status |-> "raised", error |-> "AttributeError"]
    ELSE [status |-> "ok", value |-> ConfigDictOf(s, s.cfg.act_store_device)]

AbsentDir == [exists |-> FALSE, files |-> <<>>]

EmptyDir == [exists |-> TRUE, files |-> <<>>]

WriteFile(dir, name, content) == [dir EXCEPT !.files = Merge(name :> content, @)]

\* save_model(path, sparsity) on the directory at path; sparsity is <<>> for
\* None and <<t>> for a tensor t.  An exception leaves what was written.
save_model(s, dir, sparsity) ==
    LET made == IF ~dir.exists THEN EmptyDir ELSE dir
        with_weights == WriteFile(made, SAE_WEIGHTS_PATH, state_dict(s))
        config == get_config_dict(s)
    IN  IF config.status # "ok"
        THEN [status |-> "raised", error |-> config.error, dir |-> with_weights]
        ELSE LET with_cfg == WriteFile(with_weights, SAE_CFG_PATH, config.value)
             IN  [status |-> "ok",
                  dir |-> IF sparsity # <<>>
                          THEN WriteFile(with_cfg, SPARSITY_PATH,
                                         [sparsity |-> sparsity[1]])
                          ELSE with_cfg]

\* the loader of self-produced checkpoints: the JSON config with device and
\* dtype set from the arguments, and the tensors of the weights file
load_pretrained_sae_lens_sae_components(dir, device, dtype) ==
    IF ~dir.exists \/ SAE_CFG_PATH \notin DOMAIN dir.files
           \/ SAE_WEIGHTS_PATH \notin DOMAIN dir.files
    THEN [status |-> "raised", error |-> "FileNotFoundError"]
    ELSE [status |-> "ok",
          cfg_dict |-> Merge([device |-> device, dtype |-> dtype],
                             dir.files[SAE_CFG_PATH]),
          state_dict |-> dir.files[SAE_WEIGHTS_PATH]]

\* the shape of the tensor stored under a parameter name: the two weight
\* matrices are 2-d, the biases and the scaling factor 1-d
Shape(name, t) ==
    IF name \in {"W_enc", "W_dec"} THEN <<Len(t), Len(t[1])>> ELSE <<Len(t)>>

\* mutant: load_state_dict(state_dict, strict=False)
load_state_dict_not_strict(s, sd) ==
    LET common == (DOMAIN s.params) \cap (DOMAIN sd)
    IN  [status |-> "ok",
         module |-> [s EXCEPT !.params =
                        [k \in DOMAIN @ |-> IF k \in common THEN sd[k] ELSE @[k]]]]

\* nn.Module.load_state_dict(state_dict), strict: the matching entries are
\* copied into the module, then missing or unexpected keys and shape
\* mismatches raise RuntimeError
load_state_dict(s, sd) ==
    LET missing == (DOMAIN s.params) \ (DOMAIN sd)
        unexpected == (DOMAIN sd) \ (DOMAIN s.params)
        common == (DOMAIN s.params) \cap (DOMAIN sd)
        mismatched == {k \in common : Shape(k, sd[k]) # Shape(k, s.params[k])}
        module == [s EXCEPT !.params =
                      [k \in DOMAIN @ |->
                          IF k \in common \ mismatched THEN sd[k] ELSE @[k]]]
    IN  IF missing \cup unexpected \cup mismatched # {}
        THEN [status |-> "raised", error |-> "RuntimeError", module |-> module,
              missing_keys |-> missing, unexpected_keys |-> unexpected]
        ELSE [status |-> "ok", module |-> module]

Classes == {"SparseAutoencoderBase", "TrainingSparseAutoencoder"}

Raised(error, loader_calls, constructed, loads) ==
    [status |-> "raised", error |-> error, loader_calls |-> loader_calls,
     constructed |-> constructed, loads |-> loads]

\* cls(**kwargs) followed by sae.load_state_dict(state_dict), the tail shared
\* by both load paths.  TrainingSparseAutoencoder.__init__ takes one cfg
\* argument, so the keyword call raises TypeError.
ConstructAndLoad(cls, kwargs, sd, seed) ==
    IF cls = "TrainingSparseAutoencoder"
    THEN Raised("TypeError", 1, 0, 0)
    ELSE LET fresh == SparseAutoencoderBase(kwargs, seed)
             loaded == load_state_dict(fresh, sd)
             calls == [state_dict |-> sd, target_keys |-> DOMAIN fresh.params,
                       loader_calls |-> 1, constructed |-> 1, loads |-> 1]
         IN  IF loaded.status # "ok"
             THEN Merge(calls, Raised(loaded.error, 1, 1, 1))
             ELSE Merge([status |-> "ok", instance |-> loaded.module], calls)

load_from_pretrained(cls, dir, device, dtype, seed) ==
    LET comps == load_pretrained_sae_lens_sae_components(dir, device, dtype)
    IN  IF comps.status # "ok"
        THEN Raised(comps.error, 1, 0, 0)
        ELSE LET cfg_dict == comps.cfg_dict
                 kwargs == Merge([d_in |-> cfg_dict.d_in,
                                  d_sae |-> cfg_dict.d_sae,
                                  dtype |-> cfg_dict.dtype,
                                  device |-> cfg_dict.device,
                                  model_name |-> cfg_dict.model_name,
                                  hook_point |-> cfg_dict.hook_point,
                                  hook_point_layer |-> cfg_dict.hook_point_layer,
                                  hook_point_head_index |-> cfg_dict.hook_point_head_index,
                                  activation_fn |-> cfg_dict.activation_fn],
                                 BaseDefaults)
             IN  ConstructAndLoad(cls, kwargs, comps.state_dict, seed)

\* what a missing value (None) and a given string look like in the registry
None == <<>>

Some(v) == <<v>>

\* the pretrained-SAEs directory: release -> repo_id, saes_map, conversion_func
get_pretrained_saes_directory ==
    [release_default |->
        [repo_id |-> "repo_a",
         saes_map |-> [plain |-> "folder_plain", scaled |-> "folder_scaled",
                       partial |-> "folder_partial", legacy |-> "folder_legacy"],
         conversion_func |-> None],
     release_empty |->
        [repo_id |-> "repo_a",
         saes_map |-> [plain |-> "folder_plain"],
         conversion_func |-> Some("")],
     release_named |->
        [repo_id |-> "repo_b",
         saes_map |-> [plain |-> "folder_plain"],
         conversion_func |-> Some("connor_rob_hook_z")],
     release_typo |->
        [repo_id |-> "repo_a",
         saes_map |-> [plain |-> "folder_plain"],
         conversion_func |-> Some("connor_rob")]]

\* the names conversion loaders are registered under
NAMED_PRETRAINED_SAE_LOADERS == {"sae_lens", "connor_rob_hook_z"}

\* tensors of a stored checkpoint
CheckpointParams ==
    [W_enc |-> KaimingUniform(2, 3, 5),
     W_dec |-> KaimingUniform(3, 2, 6),
     b_enc |-> <<10, -20, 30>>,
     b_dec |-> <<40, 50>>]

ScaledCheckpointParams == Merge([scaling_factor |-> <<200, 100, 50>>], CheckpointParams)

PartialCheckpointParams == [k \in {"W_enc", "W_dec", "b_dec"} |-> CheckpointParams[k]]

\* the config mapping of a stored pretrained checkpoint
PretrainedCfg ==
    [d_in |-> 2, d_sae |-> 3, dtype |-> Float32, device |-> "cpu",
     model_name |-> "gpt2", hook_point |-> "blocks.0.hook_resid_pre",
     hook_point_layer |-> 0, hook_point_head_index |-> "None",
     activation_fn |-> "relu", context_size |-> 128,
     dataset_path |-> "openwebtext", prepend_bos |-> FALSE]

Without(f, keys) == [k \in (DOMAIN f) \ keys |-> f[k]]

\* what the loader registered under name returns for a repository folder:
\* (config mapping, parameter mapping), with the device it was asked for
conversion_loader(name, repo_id, folder_name, device) ==
    LET cfg == IF folder_name = "folder_scaled"
               THEN Without(PretrainedCfg, {"prepend_bos", "activation_fn"})
               ELSE IF folder_name = "folder_legacy"
               THEN Without(PretrainedCfg, {"context_size"})
               ELSE PretrainedCfg
        sd == IF folder_name = "folder_scaled" THEN ScaledCheckpointParams
              ELSE IF folder_name = "folder_partial" THEN PartialCheckpointParams
              ELSE CheckpointParams
    IN  [cfg_dict |-> Merge([device |-> device,
                             model_name |-> IF repo_id = "repo_b" THEN "pythia-70m"
                                            ELSE cfg.model_name], cfg),
         state_dict |-> sd]

\* sae_info.conversion_func or "sae_lens"
conversion_loader_name(sae_info) ==
    IF sae_info.conversion_func = None \/ sae_info.conversion_func = Some("")
    THEN "sae_lens"
    ELSE sae_info.conversion_func[1]

\* mutant: a name that is not registered falls back to the default loader
resolve_loader_with_fallback(name) ==
    [status |-> "ok",
     name |-> IF name \in NAMED_PRETRAINED_SAE_LOADERS THEN name ELSE "sae_lens"]

\* the membership test and lookup in NAMED_PRETRAINED_SAE_LOADERS
resolve_loader(name) ==
    IF name \notin NAMED_PRETRAINED_SAE_LOADERS
    THEN [status |-> "raised", error |-> "ValueError"]
    ELSE [status |-> "ok", name |-> name]

from_pretrained(cls, release, sae_id, device, seed) ==
    LET sae_directory == get_pretrained_saes_directory
    IN  IF release \notin DOMAIN sae_directory
        THEN Merge([names |-> "release"], Raised("ValueError", 0, 0, 0))
        ELSE IF sae_id \notin DOMAIN sae_directory[release].saes_map
        THEN Merge([names |-> "sae_id"], Raised("ValueError", 0, 0, 0))
        ELSE
        LET sae_info == sae_directory[release]
            hf_repo_id == sae_info.repo_id
            hf_path == sae_info.saes_map[sae_id]
            resolved == resolve_loader(conversion_loader_name(sae_info))
        IN  IF resolved.status # "ok"
            THEN Merge([names |-> "conversion_func"], Raised(resolved.error, 0, 0, 0))
            ELSE
            LET comps == conversion_loader(resolved.name, hf_repo_id, hf_path, device)
                cfg_dict == IF "prepend_bos" \notin DOMAIN comps.cfg_dict
                            THEN Merge([prepend_bos |-> TRUE], comps.cfg_dict)
                            ELSE comps.cfg_dict
                given == [loader_name |-> resolved.name]
            IN  IF \E k \in {"d_in", "d_sae", "dtype", "device", "model_name",
                             "hook_point", "hook_point_layer",
                             "hook_point_head_index", "context_size",
                             "dataset_path"} : k \notin DOMAIN cfg_dict
                THEN Merge(given, Raised("KeyError", 1, 0, 0))
                ELSE
                LET kwargs ==
                        Merge([d_in |-> cfg_dict.d_in,
                               d_sae |-> cfg_dict.d_sae,
                               dtype |-> cfg_dict.dtype,
                               device |-> cfg_dict.device,
                               model_name |-> cfg_dict.model_name,
                               hook_point |-> cfg_dict.hook_point,
                               hook_point_layer |-> cfg_dict.hook_point_layer,
                               hook_point_head_index |-> cfg_dict.hook_point_head_index,
                               activation_fn |->
                                   IF "activation_fn" \in DOMAIN cfg_dict
                                   THEN cfg_dict.activation_fn ELSE "relu",
                               context_size |-> cfg_dict.context_size,
                               dataset_path |-> cfg_dict.dataset_path,
                               prepend_bos |-> cfg_dict.prepend_bos],
                              BaseDefaults)
                IN  Merge(given, ConstructAndLoad(cls, kwargs, comps.state_dict, seed))

\* the instance whose checkpoint a directory on disk holds
CheckpointedInstance(uses_scaling_factor) ==
    SparseAutoencoderBase(
        Merge([d_in |-> 2, d_sae |-> 3, dtype |-> Float32, device |-> "cpu",
               model_name |-> "gpt2", hook_point |-> "blocks.0.hook_resid_pre",
               hook_point_layer |-> 0, uses_scaling_factor |-> uses_scaling_factor],
              BaseDefaults), 1)

StoredCheckpoint(weights, uses_scaling_factor) ==
    WriteFile(WriteFile(EmptyDir, SAE_WEIGHTS_PATH, weights), SAE_CFG_PATH,
              ConfigDictOf(CheckpointedInstance(uses_scaling_factor), "cpu"))

\* the directories on disk before the first call
InitialFs ==
    [new_dir |-> AbsentDir,
     empty_dir |-> EmptyDir,
     ckpt_plain |-> StoredCheckpoint(CheckpointParams, FALSE),
     ckpt_scaled |-> StoredCheckpoint(ScaledCheckpointParams, TRUE),
     ckpt_partial |-> StoredCheckpoint(PartialCheckpointParams, FALSE)]

Paths == DOMAIN InitialFs

\* the directories save_model is asked to write to
SavePaths == {"new_dir", "empty_dir", "ckpt_plain"}

\* keyword arguments for the instances that are saved
IOArgs ==
    BaseArgs \cup
    {Merge([d_in |-> 2, d_sae |-> 3, dtype |-> Float32, device |-> "cpu",
            model_name |-> "gpt2", hook_point |-> "blocks.0.hook_resid_pre",
            hook_point_layer |-> 0, prepend_bos |-> FALSE,
            dataset_path |-> "openwebtext", context_size |-> 128],
           BaseDefaults)}

SaveModel ==
    /\ sae.kind # "none"
    /\ \E path \in SavePaths, sparsity \in {None, Some(Ones(sae.d_sae))} :
          LET r == save_model(sae, fs[path], sparsity)
          IN  /\ fs' = [fs EXCEPT ![path] = r.dir]
              /\ out' = Merge([op |-> "save_model", path |-> path,
                               sparsity |-> sparsity], Without(r, {"dir"}))
    /\ prev' = NoCall
    /\ UNCHANGED sae

LoadFromPretrained ==
    /\ \E cls \in Classes, path \in Paths :
          /\ out' = Merge([op |-> "load_from_pretrained", cls |-> cls, path |-> path],
                          load_from_pretrained(cls, fs[path], "cpu", Float32, 0))
          /\ prev' = IF out.op = "save_model" /\ out.path = path THEN out ELSE NoCall
    /\ UNCHANGED <<sae, fs>>

\* the (release, sae_id) arguments: every id of the first release, a known
\* and an unknown id of the others, and a release the registry does not hold
FromPretrainedInputs ==
    {<<"release_default", id>> :
        id \in {"plain", "scaled", "partial", "legacy", "unknown_id"}}
    \cup {<<r, id>> : r \in {"release_empty", "release_named", "release_typo"},
                      id \in {"plain", "unknown_id"}}
    \cup {<<"release_unknown", "plain">>}

FromPretrained ==
    /\ \E cls \in Classes, args \in FromPretrainedInputs :
          out' = Merge([op |-> "from_pretrained", cls |-> cls,
                        release |-> args[1], sae_id |-> args[2]],
                       from_pretrained(cls, args[1], args[2], "cpu", 0))
    /\ prev' = NoCall
    /\ UNCHANGED <<sae, fs>>

NextIO ==
    \/ ConstructBase(IOArgs, {0})
    \/ ConstructTraining(DecodeCfgs, {0})
    \/ OptimizerStep
    \/ SaveModel
    \/ LoadFromPretrained
    \/ FromPretrained


InitNone ==
    /\ sae = NoSae
    /\ fs = InitialFs
    /\ out = NoCall
    /\ prev = NoCall

NextInit ==
    \/ ConstructTraining(InitCfgs, Seeds)
    \/ SetDecoderNormToUnitNorm
    \/ InitializeDecoderNormConstantNorm
    \/ InitializeBDecWithPrecalculated
    \/ InitializeBDecWithMean

\* forward calls on base and training instances, between mode changes, hooks
\* and optimizer steps
SpecFwd == InitNone /\ [][NextFwd]_vars

\* consecutive _encode_with_hidden_pre calls on training instances, between
\* mode changes, hooks and optimizer steps
SpecEncode == InitNone /\ [][NextEncode]_vars

\* decode calls between assignments to scaling_factor, optimizer steps and hooks
SpecDecode == InitNone /\ [][NextDecode]_vars

\* saving instances to disk and loading checkpoints from disk and from the
\* pretrained registry
SpecIO == InitNone /\ [][NextIO]_vars

\* construction of a training instance under every combination of the
\* initialisation flags, followed by the initialisation utilities
SpecInit == InitNone /\ [][NextInit]_vars

ConstructedTraining == out.op = "construct" /\ sae.kind = "training"

(* C4: with decoder_heuristic_init set and decoder_orthogonal_init not set,
   every decoder row has L2 norm 0.1 right after construction, whatever
   normalize_sae_decoder and init_encoder_as_decoder_transpose are. *)
C4_HeuristicNormAnyFlags ==
    (ConstructedTraining /\ sae.decoder_heuristic_init /\ ~sae.decoder_orthogonal_init)
        => \A i \in 1..sae.d_sae : Norm(sae.params.W_dec[i]) = HeuristicNorm

(* C4, amended: with decoder_heuristic_init set and neither
   decoder_orthogonal_init nor normalize_sae_decoder set, every decoder row
   has L2 norm 0.1 right after construction; with normalize_sae_decoder set
   as well, the final renormalisation leaves every row with norm 1. *)
C4_HeuristicNorm ==
    (ConstructedTraining /\ sae.decoder_heuristic_init /\ ~sae.decoder_orthogonal_init)
        => \A i \in 1..sae.d_sae :
              Norm(sae.params.W_dec[i]) =
                  IF sae.normalize_sae_decoder THEN One ELSE HeuristicNorm

C4_Witness ==
    /\ ConstructedTraining
    /\ sae.decoder_heuristic_init /\ ~sae.decoder_orthogonal_init
    /\ ~sae.normalize_sae_decoder
    /\ \A i \in 1..sae.d_sae : Norm(sae.params.W_dec[i]) = HeuristicNorm

(* C5: with normalize_sae_decoder set, every decoder row has L2 norm 1 right
   after construction, whatever the other initialisation flags are. *)
C5_UnitNorm ==
    (ConstructedTraining /\ sae.normalize_sae_decoder)
        => \A i \in 1..sae.d_sae : Norm(sae.params.W_dec[i]) = One

C5_Witness ==
    /\ ConstructedTraining
    /\ sae.normalize_sae_decoder
    /\ sae.decoder_orthogonal_init
    /\ sae.init_encoder_as_decoder_transpose
    /\ sae.params.W_enc # Transpose(sae.params.W_dec, sae.d_sae, sae.d_in)
    /\ \A i \in 1..sae.d_sae : Norm(sae.params.W_dec[i]) = One

TrainingForwardDone == out.op = "forward" /\ sae.kind = "training"

(* C3: the training forward pass returns ghost_grad_loss = 0, without calling
   calculate_ghost_grad_loss, whenever the mask is None, or marks no dead
   neuron, or the instance is not in training mode, or use_ghost_grads is
   off; the total loss is then mse_loss + l1_loss. *)
C3_GhostGradGate ==
    (/\ TrainingForwardDone
     /\ \/ out.dead_neuron_mask = <<>>
        \/ MaskSum(out.dead_neuron_mask[1]) = 0
        \/ ~sae.training
        \/ ~sae.use_ghost_grads)
        => /\ out.ghost_grad_loss = 0
           /\ out.ghost_calls = 0
           /\ out.loss = out.mse_loss + out.l1_loss

C3_Witness ==
    /\ TrainingForwardDone
    /\ sae.use_ghost_grads
    /\ ~sae.training
    /\ out.dead_neuron_mask # <<>>
    /\ MaskSum(out.dead_neuron_mask[1]) > 0
    /\ out.ghost_grad_loss = 0
    /\ out.mse_loss > 0
    /\ out.l1_loss > 0
    /\ out.loss = out.mse_loss + out.l1_loss

(* C8: an instance constructed with uses_scaling_factor = False has no
   scaling_factor parameter after construction, and decode(f) is
   f @ W_dec + b_dec (handed through hook_sae_out) whatever has been assigned
   to a scaling_factor attribute since; decode of all-zero features is the
   decoder bias. *)
C8_DecodeWithoutScaling ==
    /\ (out.op = "construct" /\ ~sae.uses_scaling_factor)
          => "scaling_factor" \notin DOMAIN sae.params
    /\ (out.op = "decode" /\ ~sae.uses_scaling_factor)
          => /\ out.sae_out =
                   Tap(sae, "hook_sae_out",
                       Affine(out.feature_acts, sae.params.W_dec, sae.params.b_dec)).ret
             /\ (/\ sae.hooks["hook_sae_out"] = "none"
                 /\ \A n \in 1..Len(out.feature_acts) :
                       out.feature_acts[n] = Zeros(sae.d_sae))
                   => \A n \in 1..Len(out.sae_out) : out.sae_out[n] = sae.params.b_dec

C8_Witness ==
    /\ out.op = "decode"
    /\ ~sae.uses_scaling_factor
    /\ sae.scaling_attr # <<>>
    /\ sae.hooks["hook_sae_out"] = "none"
    /\ sae.params.b_dec # Zeros(sae.d_in)
    /\ out.sae_out = Affine(out.feature_acts, sae.params.W_dec, sae.params.b_dec)
    /\ out.sae_out # Affine(Tup([n \in 1..Len(out.feature_acts) |->
                                   VecMul(out.feature_acts[n], sae.scaling_attr[1])]),
                            sae.params.W_dec, sae.params.b_dec)

(* C9: with noise_scale = 0 or in eval mode, _encode_with_hidden_pre returns
   the features the base-class encode computes from the same parameters, the
   activation of the un-noised pre-activation, and two consecutive calls on
   the same input return the same pre-activation and the same features. *)
C9_EncodeDeterministic ==
    (/\ out.op = "encode_with_hidden_pre"
     /\ (sae.noise_scale = 0 \/ ~sae.training))
        => /\ out.feature_acts = encode(sae, out.x).feature_acts
           /\ out.feature_acts =
                 Tap(sae, "hook_hidden_post",
                     Tup([n \in 1..Len(out.x) |-> Relu(out.hidden_pre[n])])).ret
           /\ (prev.op = "encode_with_hidden_pre" /\ prev.x = out.x)
                 => /\ prev.hidden_pre = out.hidden_pre
                    /\ prev.feature_acts = out.feature_acts

C9_Witness ==
    /\ out.op = "encode_with_hidden_pre"
    /\ prev.op = "encode_with_hidden_pre"
    /\ prev.x = out.x
    /\ prev.randn # out.randn
    /\ sae.noise_scale > 0
    /\ ~sae.training
    /\ \A h \in DOMAIN sae.hooks : sae.hooks[h] = "none"
    /\ \E n \in 1..Len(out.x) : \E j \in 1..sae.d_sae : out.feature_acts[n][j] > 0
    /\ prev.feature_acts = out.feature_acts

(* C10: every forward pass, base or training, fires hook_sae_in,
   hook_hidden_pre, hook_hidden_post and hook_sae_out once each, in this
   order, on the centred input, the pre-activation, the activated features
   and the reconstruction; a tap without an external hook returns its
   argument, and each stage consumes what the tap before it returned. *)
C10_TapsInOrder ==
    (out.op = "forward")
        => LET t == out.taps
               noise == IF sae.kind = "training" THEN NoiseTerm(sae, out.randn)
                        ELSE Tup([n \in 1..Len(out.x) |-> Zeros(sae.d_sae)])
           IN  /\ Len(t) = 4
               /\ \A i \in 1..4 : t[i].name = HookNames[i]
               /\ \A i \in 1..4 : sae.hooks[t[i].name] = "none" => t[i].ret = t[i].arg
               /\ t[1].arg = CenterInput(sae, out.x)
               /\ t[2].arg = PreActivation(sae, t[1].ret)
               /\ t[3].arg = Tup([n \in 1..Len(out.x) |->
                                    Relu(VecAdd(t[2].ret[n], noise[n]))])
               /\ t[4].arg = Affine(apply_scaling_factor(sae, t[3].ret),
                                    sae.params.W_dec, sae.params.b_dec)
               /\ out.sae_out = t[4].ret

C10_Witness ==
    /\ TrainingForwardDone
    /\ sae.hooks["hook_hidden_pre"] = "zero"
    /\ out.taps[2].ret # out.taps[2].arg
    /\ out.taps[3].arg # Tup([n \in 1..Len(out.x) |-> Relu(out.taps[2].arg[n])])
    /\ out.taps[4].ret = out.taps[4].arg
    /\ out.sae_out = out.taps[4].arg

\* the config fields of an instance
ConfigFields(s) ==
    [d_in |-> s.d_in, d_sae |-> s.d_sae, dtype |-> s.dtype, device |-> s.device,
     model_name |-> s.model_name, hook_point |-> s.hook_point,
     hook_point_layer |-> s.hook_point_layer,
     hook_point_head_index |-> s.hook_point_head_index,
     activation_fn |-> s.activation_fn_str,
     apply_b_dec_to_input |-> s.apply_b_dec_to_input,
     uses_scaling_factor |-> s.uses_scaling_factor,
     sae_lens_training_version |-> s.sae_lens_training_version,
     prepend_bos |-> s.prepend_bos, dataset_name |-> s.dataset_name,
     context_size |-> s.context_size]

(* C1: round trip: save_model(dir) followed by load_from_pretrained(dir) on
   the same directory completes and yields an instance with the original's
   parameters (same names, same values) and the original's config fields. *)
C1_RoundTrip ==
    (/\ out.op = "load_from_pretrained"
     /\ prev.op = "save_model"
     /\ prev.path = out.path)
        => /\ prev.status = "ok"
           /\ out.status = "ok"
           /\ out.instance.params = sae.params
           /\ ConfigFields(out.instance) = ConfigFields(sae)

(* C2: save_model(path, sparsity) runs to completion and leaves the directory
   existing with both sae_weights.safetensors and cfg.json in it, and with
   sparsity.safetensors exactly when a sparsity tensor was supplied; the
   weights file is never there without cfg.json. *)
C2_SaveWritesAll ==
    (out.op = "save_model")
        => /\ out.status = "ok"
           /\ fs[out.path].exists
           /\ SAE_WEIGHTS_PATH \in DOMAIN fs[out.path].files
           /\ SAE_CFG_PATH \in DOMAIN fs[out.path].files
           /\ (SPARSITY_PATH \in DOMAIN fs[out.path].files) <=> (out.sparsity # None)

FromPretrainedDone == out.op = "from_pretrained"

\* which identifier of a from_pretrained call fails validation first, if any
FirstInvalid(release, sae_id) ==
    LET dir == get_pretrained_saes_directory
    IN  IF release \notin DOMAIN dir THEN "release"
        ELSE IF sae_id \notin DOMAIN dir[release].saes_map THEN "sae_id"
        ELSE IF dir[release].conversion_func \notin {None, Some("")}
                /\ dir[release].conversion_func[1] \notin NAMED_PRETRAINED_SAE_LOADERS
        THEN "conversion_func"
        ELSE "nothing"

(* C6: from_pretrained validates before it loads: an unknown release, an
   sae_id unknown in the release, or a conversion-procedure name that is not a
   registered loader raises a lookup error naming the first of these (in this
   order), and then no loader is invoked, no instance is constructed and no
   state dict is loaded; a loader that is invoked is the one the registry
   names, or the default one when the registry names none. *)
C6_ValidateBeforeLoad ==
    FromPretrainedDone
        => LET invalid == FirstInvalid(out.release, out.sae_id)
           IN  /\ invalid # "nothing"
                     => /\ out.status = "raised"
                        /\ out.error = "ValueError"
                        /\ out.names = invalid
                        /\ out.loader_calls = 0
                        /\ out.constructed = 0
                        /\ out.loads = 0
                        /\ "instance" \notin DOMAIN out
               /\ out.loader_calls = 1
                     => LET given == get_pretrained_saes_directory[out.release].conversion_func
                        IN  out.loader_name =
                               IF given \in {None, Some("")} THEN "sae_lens" ELSE given[1]

C6_Witness ==
    /\ FromPretrainedDone
    /\ out.release = "release_typo"
    /\ out.sae_id = "plain"
    /\ out.status = "raised"
    /\ out.names = "conversion_func"
    /\ out.loader_calls = 0
    /\ out.constructed = 0

LoadDone == out.op \in {"load_from_pretrained", "from_pretrained"}

(* C7: loading is all-or-nothing on parameter names: when the parameter names
   of the checkpoint differ from those of the freshly constructed target,
   load_from_pretrained and from_pretrained raise the key-mismatch error and
   return no instance; an instance is returned only when the name sets are
   equal, and it then holds the checkpoint's value for every parameter. *)
C7_LoadAllOrNothing ==
    (LoadDone /\ out.constructed = 1)
        => /\ (DOMAIN out.state_dict # out.target_keys)
                 => /\ out.status = "raised"
                    /\ out.error = "RuntimeError"
                    /\ "instance" \notin DOMAIN out
           /\ ("instance" \in DOMAIN out)
                 => /\ DOMAIN out.state_dict = out.target_keys
                    /\ DOMAIN out.instance.params = DOMAIN out.state_dict
                    /\ \A k \in DOMAIN out.state_dict :
                          out.instance.params[k] = out.state_dict[k]

C7_Witness ==
    /\ out.op = "load_from_pretrained"
    /\ out.constructed = 1
    /\ "scaling_factor" \in DOMAIN out.state_dict
    /\ "scaling_factor" \notin out.target_keys
    /\ out.status = "raised"
    /\ out.error = "RuntimeError"
    /\ "instance" \notin DOMAIN out

(***************************************************************************)
(* Shapes through construction and re-initialisation.                      *)
(***************************************************************************)
\* the initialisation flags under both orientations of the dimensions
ShapeCfgs ==
    {[c EXCEPT !.d_in = d[1], !.d_sae = d[2]] :
        c \in InitCfgs, d \in {<<2, 3>>, <<3, 2>>}}

NextShape ==
    \/ ConstructBase(BaseArgs, Seeds)
    \/ ConstructTraining(ShapeCfgs, Seeds)
    \/ SetDecoderNormToUnitNorm
    \/ InitializeDecoderNormConstantNorm
    \/ InitializeBDecWithPrecalculated
    \/ InitializeBDecWithMean

\* construction of base and training instances of both orientations,
\* followed by any sequence of the initialisation utilities
SpecShape == InitNone /\ [][NextShape]_vars

\* tensor.shape == (rows, cols)
HasShape(M, rows, cols) ==
    /\ Len(M) = rows
    /\ \A i \in 1..Len(M) : Len(M[i]) = cols

ShapesConsistent(s) ==
    /\ HasShape(s.params.W_enc, s.d_in, s.d_sae)
    /\ HasShape(s.params.W_dec, s.d_sae, s.d_in)

(* C11: after construction and after every initialisation or
   re-initialisation operation, d_in and d_sae hold their construction
   values, W_enc has shape (d_in, d_sae) and W_dec has shape (d_sae, d_in). *)
C11_ShapesKept ==
    [][(sae'.kind # "none")
          => /\ ShapesConsistent(sae')
             /\ (out'.op = "construct")
                   => /\ sae'.d_in = out'.cfg.d_in
                      /\ sae'.d_sae = out'.cfg.d_sae
             /\ (sae.kind # "none")
                   => /\ sae'.d_in = sae.d_in
                      /\ sae'.d_sae = sae.d_sae]_vars

C11_Witness ==
    /\ sae.kind = "training"
    /\ sae.d_in = 3
    /\ sae.d_sae = 2
    /\ sae.decoder_orthogonal_init
    /\ sae.init_encoder_as_decoder_transpose
    /\ out.op = "initialize_b_dec_with_mean"
    /\ sae.params.b_dec # Zeros(sae.d_in)
    /\ ShapesConsistent(sae)

(***************************************************************************)
(* The decoder strategies as a decision table.                             *)
(***************************************************************************)
\* the decoder initialize_weights_basic drew, for one outcome of the draw
DefaultDecoder(cfg, seed) == KaimingUniform(cfg.d_sae, cfg.d_in, seed)

\* the decoder each strategy produces on its own
OrthogonalDecoder(cfg, seed) ==
    Transpose(Orthogonal(cfg.d_in, cfg.d_sae, seed + 2), cfg.d_in, cfg.d_sae)

HeuristicDecoder(cfg, seed) ==
    LET unit == DivideRowsByNorm(TorchRand(cfg.d_sae, cfg.d_in, seed + 3))
    IN  Tup([i \in 1..Len(unit) |-> VecScale(unit[i], HeuristicNorm)])

UnitNormDecoder(cfg, seed) == DivideRowsByNorm(DefaultDecoder(cfg, seed))

\* orthogonal > heuristic-norm > unit-norm > default, first match wins
FirstMatchDecoder(cfg, seed) ==
    IF cfg.decoder_orthogonal_init THEN OrthogonalDecoder(cfg, seed)
    ELSE IF cfg.decoder_heuristic_init THEN HeuristicDecoder(cfg, seed)
    ELSE IF cfg.normalize_sae_decoder THEN UnitNormDecoder(cfg, seed)
    ELSE DefaultDecoder(cfg, seed)

(* C12: for every combination of decoder_orthogonal_init,
   decoder_heuristic_init and normalize_sae_decoder, the decoder right after
   construction is the result of the one strategy of the highest-priority
   flag that is set, with no operation of a lower-priority strategy applied
   to it, and the default random decoder when no flag is set. *)
C12_FirstMatchOnly ==
    ConstructedTraining
        => \E seed \in Seeds : sae.params.W_dec = FirstMatchDecoder(out.cfg, seed)

(* C12 as amended: the decoder right after construction is the result of the
   first strategy set in the order orthogonal > heuristic-norm > unit-norm >
   default, renormalised to unit-norm rows at the end whenever
   normalize_sae_decoder is set, whichever strategy was selected; with no
   flag set it is the default random decoder unmodified. *)
C12_FirstMatchThenRenorm ==
    ConstructedTraining
        => \E seed \in Seeds :
              sae.params.W_dec =
                  IF out.cfg.normalize_sae_decoder
                  THEN DivideRowsByNorm(FirstMatchDecoder(out.cfg, seed))
                  ELSE FirstMatchDecoder(out.cfg, seed)

C12_Witness ==
    /\ ConstructedTraining
    /\ out.cfg.decoder_orthogonal_init
    /\ out.cfg.decoder_heuristic_init
    /\ ~out.cfg.normalize_sae_decoder
    /\ \E seed \in Seeds : sae.params.W_dec = OrthogonalDecoder(out.cfg, seed)
    /\ \A seed \in Seeds : sae.params.W_dec # HeuristicDecoder(out.cfg, seed)

(***************************************************************************)
(* The sparsity-penalty policy over an instance's lifetime.                *)
(***************************************************************************)
\* sae.scale_sparsity_penalty_by_decoder_norm = value, assigned from outside
SetScaleSparsityPenaltyByDecoderNorm ==
    /\ sae.kind = "training"
    /\ \E value \in BOOLEAN :
          /\ value # sae.scale_sparsity_penalty_by_decoder_norm
          /\ sae' = [sae EXCEPT !.scale_sparsity_penalty_by_decoder_norm = value]
    /\ out' = Done("set_scale_sparsity_penalty_by_decoder_norm")
    /\ prev' = NoCall
    /\ UNCHANGED fs

\* training configurations under both policies, with decoder rows that are
\* not of unit norm
PolicyCfgs ==
    {[DefaultCfg EXCEPT !.scale_sparsity_penalty_by_decoder_norm = d,
                        !.normalize_sae_decoder = FALSE,
                        !.decoder_heuristic_init = h] :
        d \in BOOLEAN, h \in BOOLEAN}

NextPolicy ==
    \/ ConstructTraining(PolicyCfgs, {0})
    \/ SetScaleSparsityPenaltyByDecoderNorm
    \/ SetMode
    \/ OptimizerStep
    \/ ForwardTraining({0})

\* forward calls on training instances between mode changes, optimizer steps
\* and assignments to the scale_sparsity_penalty_by_decoder_norm attribute
SpecPolicy == InitNone /\ [][NextPolicy]_vars

\* l1_loss as forward computes it from a sparsity term
L1Loss(s, sparsity) ==
    Mean(Tup([n \in 1..Len(sparsity) |-> FxMul(s.l1_coefficient, sparsity[n])]))

\* the l1_loss of a forward call under the named policy
L1LossUnder(policy, s, feature_acts) ==
    L1Loss(s, IF policy = "decoder_norm"
              THEN get_sparsity_loss_term_decoder_norm(s, feature_acts)
              ELSE get_sparsity_loss_term_standard(s, feature_acts))

(* C13: the sparsity-penalty policy is chosen at construction from
   scale_sparsity_penalty_by_decoder_norm (decoder-norm-weighted if set,
   standard otherwise), no later step changes it, and every forward call
   computes its l1_loss with it, also after the attribute was changed. *)
C13_PolicyFixed ==
    [][(sae'.kind = "training")
          => /\ (out'.op = "construct")
                   => sae'.get_sparsity_loss_term =
                         IF out'.cfg.scale_sparsity_penalty_by_decoder_norm
                         THEN "decoder_norm" ELSE "standard"
             /\ (sae.kind = "training")
                   => sae'.get_sparsity_loss_term = sae.get_sparsity_loss_term
             /\ (out'.op = "forward")
                   => out'.l1_loss =
                         L1LossUnder(sae'.get_sparsity_loss_term, sae',
                                     out'.feature_acts)]_vars

C13_Witness ==
    /\ TrainingForwardDone
    /\ sae.get_sparsity_loss_term = "decoder_norm"
    /\ ~sae.scale_sparsity_penalty_by_decoder_norm
    /\ out.l1_loss = L1LossUnder("decoder_norm", sae, out.feature_acts)
    /\ out.l1_loss # L1LossUnder("standard", sae, out.feature_acts)

(***************************************************************************)
(* The encoder as the decoder's transpose.                                 *)
(***************************************************************************)
ConstructedWithTranspose ==
    ConstructedTraining /\ out.cfg.init_encoder_as_decoder_transpose

\* W_enc.T
EncoderTransposed(s) == Transpose(s.params.W_enc, s.d_in, s.d_sae)

(* C14: with init_encoder_as_decoder_transpose set, the encoder weight
   equals the transpose of the decoder weight right after construction, for
   every combination of the decoder flags. *)
C14_EncoderIsDecoderTranspose ==
    ConstructedWithTranspose
        => sae.params.W_enc = Transpose(sae.params.W_dec, sae.d_sae, sae.d_in)

(* C14 as amended: with init_encoder_as_decoder_transpose set, the encoder
   is the transpose of the decoder as it stood before the final unit-norm
   renormalisation: right after construction W_dec equals W_enc transposed
   when normalize_sae_decoder is not set, and W_enc transposed with every
   row divided by its norm when it is set. *)
C14_EncoderIsPreRenormTranspose ==
    ConstructedWithTranspose
        => sae.params.W_dec =
              IF out.cfg.normalize_sae_decoder
              THEN DivideRowsByNorm(EncoderTransposed(sae))
              ELSE EncoderTransposed(sae)

C14_Witness ==
    /\ ConstructedWithTranspose
    /\ out.cfg.decoder_heuristic_init
    /\ ~out.cfg.decoder_orthogonal_init
    /\ out.cfg.normalize_sae_decoder
    /\ \A i \in 1..sae.d_sae : Norm(EncoderTransposed(sae)[i]) = HeuristicNorm
    /\ sae.params.W_dec # EncoderTransposed(sae)
    /\ sae.params.W_dec = DivideRowsByNorm(EncoderTransposed(sae))

====
